---- MODULE Spec2Model ----
(***************************************************************************)
(* Autoplan engine of kmccb/hevy_stable (src/autoplan.js, the v1.5 copy    *)
(* that starts at line 753): history analysis, split scheduling, routine   *)
(* payload construction and routine synchronisation with the remote store. *)
(*                                                                         *)
(* Time is counted in ticks, TicksPerDay ticks to a day.  A template is a  *)
(* record [id, title, primary_muscle_group, equipment, leg, core, abs,     *)
(* hold, crunch]: the muscle group in lower case, leg and core telling     *)
(* whether the title holds one of legKeywords / coreKeywords, abs the      *)
(* slots of priorityExercises whose mustHave keywords the title holds,     *)
(* hold whether it holds one of durationKeywords, crunch whether it holds  *)
(* 'crunch' or 'twist'.  A logged exercise is [title,                      *)
(* exercise_template_id, sets]; a session is [start_time, exercises].      *)
(* The weight_kg of a payload set is counted in grams.                     *)
(* A remote routine is [id, managed], managed standing for a title that    *)
(* contains 'CoachGPT'.                                                    *)
(***************************************************************************)
EXTENDS Integers, Sequences, FiniteSets, TLC

VARIABLES
  now,              \* new Date() of the current run, in ticks
  day,              \* position of the daily cycle: "run" or "train"
  workouts,         \* sessions the tracker returns, newest first
  exerciseTemplates, \* module-level template catalog, set by each run
  lastScheduled,    \* data/last_scheduled.json
  workoutType,      \* split chosen by the current run
  prevType,         \* split chosen by the previous run ("none" before it)
  prevTrained,      \* the previous run's routine was trained
  allTrained,       \* every routine scheduled so far was trained
  retryDue,         \* split persisted and never trained when the run began
  repeatExcused,    \* at the run: every other split hit within 2 days, even week
  pc,               \* position of the autoplan run
  result,           \* what the promise of autoplan settled to
  pending,          \* value returned by try/catch, delivered after finally
  remote,           \* routines held by the remote store
  cacheFile,        \* data/routines.json
  routines,         \* the routines argument of autoplan
  updatedRoutines,  \* routine list used for identification
  existingRoutine,  \* id of the managed routine kept for update, 0 for null
  cacheCheck,       \* outcome of the validation against the cache file
  refreshFailed,    \* the discover refresh threw
  submission,       \* 1 for the first create/update, 2 for the post-check redo
  payload,          \* routinePayload.exercises of the current submission
  method,           \* "get", "post", "put" or "none"
  attempt,          \* loop counter of makeApiRequestWithRetry
  updAttempt,       \* loop counter of updateRoutine
  page,             \* page of refreshRoutines
  allRoutines,      \* accumulator of refreshRoutines
  outcome,          \* of the current outbound call: "pending", "ok", "threw"
  requests,         \* HTTP requests issued by the current outbound call
  delays,           \* delays waited by the current outbound call, in order
  worst,            \* gravest failure seen by the current outbound call
  afterFatal,       \* a request followed a non-retryable failure in this call
  posts,            \* a POST request was issued in the run
  puts,             \* a PUT request was issued in the run
  created,          \* successful POSTs in the run
  updateExhausted,  \* updateRoutine threw after its last attempt
  buildThrew,       \* buildRoutinePayload threw in the run
  finalRefreshes,   \* final refreshRoutines calls started in the run
  call,             \* a single function called on its own: name and arguments
  returned,         \* what that function returned
  historyAnalysis,  \* module-level analysis of the history, set by each run
  runs              \* arguments and locals of the runs started by the endpoints

schedVars == <<now, day, workouts, exerciseTemplates, lastScheduled, workoutType, prevType,
               prevTrained, allTrained, retryDue, repeatExcused>>
callVars == <<method, attempt, updAttempt, page, allRoutines, outcome,
              requests, delays, worst, afterFatal>>
runVars == <<pc, result, pending, remote, cacheFile, routines, updatedRoutines,
             existingRoutine, cacheCheck, refreshFailed, submission, payload,
             posts, puts, created, updateExhausted, buildThrew, finalRefreshes>>
pureVars == <<call, returned>>
overlapVars == <<historyAnalysis, runs>>
vars == <<schedVars, callVars, runVars, pureVars, overlapVars>>

Min(a, b) == IF a <= b THEN a ELSE b
Max(a, b) == IF a >= b THEN a ELSE b
Range(s) == {s[i] : i \in 1..Len(s)}

\* F(v), with v computed once
With(v, F(_)) == CHOOSE r \in {F(x) : x \in {v}} : TRUE
Take(s, n) == SubSeq(s, 1, Min(n, Len(s)))

RECURSIVE Pow2(_)
Pow2(n) == IF n <= 0 THEN 1 ELSE 2 * Pow2(n - 1)

----------------------------------------------------------------------------
(* Bounds of the model *)

TicksPerDay == 2
MaxDays == 10
MaxRoutines == 2
PageSize == 1

----------------------------------------------------------------------------
(* History analysis and split scheduling *)

Splits == <<"Push", "Pull", "Legs", "Core">>

splitMap ==
  [Push |-> {"chest", "shoulders", "triceps"},
   Pull |-> {"lats", "upper_back", "biceps", "rear_delts"},
   Legs |-> {"quads", "hamstrings", "glutes", "calves", "full_body"},
   Core |-> {"abdominals", "obliques", "core", "lower_back"}]

WeekDays == 7
RecentSplitDays == 3
NeverHitDays == 99
AnalysisWindow == 30

NoTemplate ==
  [id |-> 0, title |-> 0, primary_muscle_group |-> "", equipment |-> "",
   leg |-> FALSE, core |-> FALSE, abs |-> {}, hold |-> FALSE, crunch |-> FALSE]

\* exerciseTemplates.find(t => t.id === exercise.exercise_template_id)
FindTemplate(templates, tid) ==
  IF \E i \in 1..Len(templates) : templates[i].id = tid
  THEN templates[CHOOSE i \in 1..Len(templates) :
                   /\ templates[i].id = tid
                   /\ \A j \in 1..(i - 1) : templates[j].id # tid]
  ELSE NoTemplate

\* the if / else-if chain of analyzeHistory: split of one primary muscle
SplitOfMuscle(m) ==
  IF m \in splitMap.Push THEN "Push"
  ELSE IF m \in splitMap.Pull THEN "Pull"
  ELSE IF m \in splitMap.Legs THEN "Legs"
  ELSE IF m \in splitMap.Core THEN "Core"
  ELSE "none"

\* muscle of the k-th exercise of a session, "" when the template is unknown
MuscleAt(w, k, templates) ==
  FindTemplate(templates, w.exercises[k].exercise_template_id).primary_muscle_group

\* workoutSplit: each classified exercise overwrites it, the last one stays
WorkoutSplit(w, templates) ==
  LET hits == {k \in 1..Len(w.exercises) :
                 SplitOfMuscle(MuscleAt(w, k, templates)) # "none"}
  IN IF hits = {} THEN "none"
     ELSE SplitOfMuscle(MuscleAt(w, CHOOSE k \in hits : \A j \in hits : j <= k,
                                 templates))

weeklySplitFrequency(ws, templates, t) ==
  LET recentWorkouts == Take(ws, AnalysisWindow)
      oneWeekAgo == t - WeekDays * TicksPerDay
  IN [s \in Range(Splits) |->
        Cardinality({i \in 1..Len(recentWorkouts) :
                       /\ recentWorkouts[i].start_time >= oneWeekAgo
                       /\ WorkoutSplit(recentWorkouts[i], templates) = s})]

splitsTouched(w, templates) ==
  {s \in Range(Splits) :
     \E k \in 1..Len(w.exercises) : MuscleAt(w, k, templates) \in splitMap[s]}

\* days since the split was last touched, NeverHitDays when it never was
daysAgo(ws, templates, t, s) ==
  LET hit == {i \in 1..Len(ws) : s \in splitsTouched(ws[i], templates)}
  IN IF hit = {} THEN NeverHitDays
     ELSE LET last == CHOOSE i \in hit :
                        \A j \in hit : ws[j].start_time <= ws[i].start_time
          IN (t - ws[last].start_time) \div TicksPerDay

\* first index of Splits that minimises f (a stable ascending sort's head)
FirstMin(f) ==
  CHOOSE i \in 1..Len(Splits) :
    /\ \A j \in 1..Len(Splits) : f[Splits[i]] <= f[Splits[j]]
    /\ \A j \in 1..(i - 1) : f[Splits[j]] > f[Splits[i]]

FirstMax(f) ==
  CHOOSE i \in 1..Len(Splits) :
    /\ \A j \in 1..Len(Splits) : f[Splits[i]] >= f[Splits[j]]
    /\ \A j \in 1..(i - 1) : f[Splits[j]] < f[Splits[i]]

splitAges(ws, templates, t) ==
  [s \in Range(Splits) |-> daysAgo(ws, templates, t, s)]

\* variant: no split counts as recent
recentSplitsNone(age) == {}

\* splits last touched less than RecentSplitDays days ago
recentSplits(age) == {s \in Range(Splits) : age[s] < RecentSplitDays}

\* the branch of determineWorkoutTypeByLastHit that returns, as it logs it
smartSplitRule(ws, templates, t) ==
  LET freq == weeklySplitFrequency(ws, templates, t)
      leastFrequentSplit == Splits[FirstMin(freq)]
  IN IF \E s \in Range(Splits) : freq[s] = 0 THEN "not hit this week"
     ELSE IF leastFrequentSplit \notin recentSplits(splitAges(ws, templates, t))
     THEN "least frequent this week"
     ELSE "most overdue"

determineWorkoutTypeByLastHit(ws, templates, t) ==
  LET freq == weeklySplitFrequency(ws, templates, t)
      age == splitAges(ws, templates, t)
      notHit == {i \in 1..Len(Splits) : freq[Splits[i]] = 0}
      rule == smartSplitRule(ws, templates, t)
  IN IF rule = "not hit this week"
     THEN Splits[CHOOSE i \in notHit : \A j \in notHit : i <= j]
     ELSE IF rule = "least frequent this week"
     THEN Splits[FirstMin(freq)]
     ELSE Splits[FirstMax(age)]

----------------------------------------------------------------------------
(* Progression analysis.  A logged set is [weight_kg, reps], Null for a     *)
(* field that is null or missing.  Pounds are counted in 10^-5 lb, the      *)
(* weights printed by toFixed(1) in tenths of a pound.                      *)

KgToLbsE5 == 220462
Null == 0 - 1
MinProgressionSets == 2
HighReps == 10
IncreasePercent == 105

Quantifiable(set) == set.weight_kg # Null /\ set.reps # Null

\* the element pushed to progressionData[title] for one set
Measured(set, date) ==
  [date |-> date, weight_kg |-> set.weight_kg,
   weight_lbs |-> set.weight_kg * KgToLbsE5, reps |-> set.reps,
   volume |-> set.weight_kg * KgToLbsE5 * set.reps]

\* <<n, k>>: exercise k of session n, of the sessions analysed, when its
\* template is found
Analysed(ws, templates) ==
  UNION {{<<n, k>> : k \in {x \in 1..Len(ws[n].exercises) :
                              FindTemplate(templates,
                                           ws[n].exercises[x].exercise_template_id)
                                # NoTemplate}} :
           n \in 1..Min(Len(ws), AnalysisWindow)}

\* <<n, k, i>>: the quantifiable sets logged under a title
SetsOf(ws, templates, title) ==
  UNION {{<<a[1], a[2], i>> :
            i \in {x \in 1..Len(ws[a[1]].exercises[a[2]].sets) :
                     Quantifiable(ws[a[1]].exercises[a[2]].sets[x])}} :
           a \in {b \in Analysed(ws, templates) :
                    ws[b[1]].exercises[b[2]].title = title}}

\* the order in which the nested loops of analyzeHistory meet two places
Earlier(a, b) ==
  \/ a[1] < b[1]
  \/ a[1] = b[1] /\ a[2] < b[2]
  \/ a[1] = b[1] /\ a[2] = b[2] /\ Len(a) = 3 /\ a[3] < b[3]

\* progressionData[title]: the quantifiable sets in the order they are pushed
progressionData(ws, templates, title) ==
  [r \in 1..Cardinality(SetsOf(ws, templates, title)) |->
     LET at == CHOOSE a \in SetsOf(ws, templates, title) :
                 Cardinality({b \in SetsOf(ws, templates, title) : Earlier(b, a)})
                   = r - 1
     IN Measured(ws[at[1]].exercises[at[2]].sets[at[3]], ws[at[1]].start_time)]

\* x.toFixed(1) of a weight in 10^-5 lb, in tenths of a pound
toFixed1(lbsE5) == (lbsE5 + 5000) \div 10000

\* (weight_lbs * 1.05).toFixed(1), in tenths of a pound
newWeightLbs(lbsE5) == (lbsE5 * IncreasePercent + 500000) \div 1000000

Suggestion(text, lbs) == [text |-> text, lbs |-> lbs]

\* progressionAnalysis[title] from the sets of progressionData[title]
progressionRecord(sets) ==
  LET lastSet == sets[Len(sets)]
      secondLastSet == sets[Len(sets) - 1]
      volumeChange == lastSet.volume - secondLastSet.volume
  IN [lastWeightLbs |-> toFixed1(lastSet.weight_lbs),
      lastReps |-> lastSet.reps,
      volumeChange |-> volumeChange,
      suggestion |->
        IF volumeChange > 0
        THEN Suggestion("Increase weight to", newWeightLbs(lastSet.weight_lbs))
        ELSE IF lastSet.reps >= HighReps
        THEN Suggestion("Try increasing weight to", newWeightLbs(lastSet.weight_lbs))
        ELSE Suggestion("Maintain or increase reps", 0)]

\* the titles that get a record
Recorded(ws, templates) ==
  {title \in {ws[a[1]].exercises[a[2]].title : a \in Analysed(ws, templates)} :
     Cardinality(SetsOf(ws, templates, title)) >= MinProgressionSets}

\* where a title is met first
FirstLogged(ws, templates, title) ==
  CHOOSE a \in Analysed(ws, templates) :
    /\ ws[a[1]].exercises[a[2]].title = title
    /\ \A b \in Analysed(ws, templates) :
         ws[b[1]].exercises[b[2]].title = title => ~Earlier(b, a)

\* Object.entries(progressionAnalysis): [title, record] in insertion order
progressionAnalysis(ws, templates) ==
  [r \in 1..Cardinality(Recorded(ws, templates)) |->
     LET title == CHOOSE x \in Recorded(ws, templates) :
                    Cardinality({y \in Recorded(ws, templates) :
                                   Earlier(FirstLogged(ws, templates, y),
                                           FirstLogged(ws, templates, x))}) = r - 1
     IN [title |-> title,
         record |-> progressionRecord(progressionData(ws, templates, title))]]

----------------------------------------------------------------------------
(* Routine builder *)

MaxSupersetPairs == 3
MaxFinishers == 2
FinisherStop == 7
MaxAbsFinishers == 1
MinEntries == 6
MaxEntries == 8
SupersetRest == 30
FinisherRest == 90
AbsFinisherRest == 60
NoSuperset == 0 - 1
SetsPerEntry == 3
DurationSeconds == 45
StrengthReps == 8
AbsReps == 10
DefaultLightKg == 10
DefaultBarbellKg == 20
DefaultMachineKg == 15

\* ex.id && typeof ex.id === 'string'
HasValidId(ex) == ex.id # 0

validOf(picks) == SelectSeq(picks, HasValidId)

\* variant: the builder accepts empty selections
BuildThrowsNever(exercises, absExercises) == FALSE

\* buildRoutinePayload throws 'No valid exercises to create routine'
BuildThrows(exercises, absExercises) ==
  Len(validOf(exercises)) = 0 /\ Len(validOf(absExercises)) = 0

\* exerciseTemplates.find(t => t.title === title)
FindByTitle(templates, title) ==
  IF \E i \in 1..Len(templates) : templates[i].title = title
  THEN templates[CHOOSE i \in 1..Len(templates) :
                   /\ templates[i].title = title
                   /\ \A j \in 1..(i - 1) : templates[j].title # title]
  ELSE NoTemplate

\* parseFloat(text) / KG_TO_LBS of a weight printed in tenths of a pound, in
\* grams rounded down, KG_TO_LBS taken to four decimals
lbsToKg(tenths) == (tenths * 1000000) \div 22046

\* the weight read from a progression record: the one of the suggestion
\* "Increase weight to", else the last weight
weightOf(record) ==
  IF record.suggestion.text = "Increase weight to"
  THEN lbsToKg(record.suggestion.lbs)
  ELSE lbsToKg(record.lastWeightLbs)

equipmentDefault(equipment) ==
  IF equipment \in {"resistance_band", "dumbbell"} THEN DefaultLightKg * 1000
  ELSE IF equipment = "barbell" THEN DefaultBarbellKg * 1000
  ELSE IF equipment = "machine" THEN DefaultMachineKg * 1000
  ELSE 0

\* weight, in grams, of the sets of a load-based exercise
findSimilarExerciseWeight(exercise, progress, templates) ==
  LET own == {k \in 1..Len(progress) : progress[k].title = exercise.title}
      Similar(k) ==
        LET template == FindByTitle(templates, progress[k].title)
        IN /\ template # NoTemplate
           /\ template.primary_muscle_group = exercise.primary_muscle_group
           /\ template.equipment = exercise.equipment
      similar == {k \in 1..Len(progress) : Similar(k)}
  IN IF own # {} THEN weightOf(progress[CHOOSE k \in own : TRUE].record)
     ELSE IF similar # {}
     THEN weightOf(progress[CHOOSE k \in similar : \A j \in similar : k <= j].record)
     ELSE equipmentDefault(exercise.equipment)

\* variant: an exercise is duration-based by its title only
isDurationBasedByTitle(ex) == ex.hold

\* a title with a duration keyword, or a bodyweight abs exercise that is
\* neither a crunch nor a twist
isDurationBased(ex) ==
  \/ ex.hold
  \/ /\ ex.primary_muscle_group \in {"abdominals", "obliques"}
     /\ ex.equipment \in {"", "none"}
     /\ ~ex.crunch

DurationSet == [type |-> "normal", duration_seconds |-> DurationSeconds, weight_kg |-> 0]

LoadSet(reps, weight) == [type |-> "normal", reps |-> reps, weight_kg |-> weight]

Entry(ex, superset, rest, reps, progress, templates) ==
  [exercise_template_id |-> ex.id, superset_id |-> superset, rest_seconds |-> rest,
   sets |-> [i \in 1..SetsPerEntry |->
               IF isDurationBased(ex) THEN DurationSet
               ELSE LoadSet(reps, findSimilarExerciseWeight(ex, progress,
                                                            templates))]]

EntryIds(es) == {es[i].exercise_template_id : i \in 1..Len(es)}

\* variant: the final loop keeps every entry
DedupeNone(es) == es

\* the final loop over allExercises: the first entry of each template id stays
Dedupe(es) ==
  LET First(i) == \A j \in 1..(i - 1) :
                    es[j].exercise_template_id # es[i].exercise_template_id
      keep == {i \in 1..Len(es) : First(i)}
      Nth(k) == CHOOSE i \in keep : Cardinality({j \in keep : j <= i}) = k
  IN [k \in 1..Cardinality(keep) |-> es[Nth(k)]]

\* routinePayload.exercises; called only when BuildThrows is false
buildRoutinePayload(exercises, absExercises, progress, templates) ==
  LET validExercises == validOf(exercises)
      validAbsExercises == validOf(absExercises)
      supersetPairs == Min(Min(Len(validExercises), Len(validAbsExercises)),
                           MaxSupersetPairs)
      paired == [k \in 1..(2 * supersetPairs) |->
                   IF k % 2 = 1
                   THEN Entry(validExercises[(k + 1) \div 2], ((k + 1) \div 2) - 1,
                              SupersetRest, StrengthReps, progress, templates)
                   ELSE Entry(validAbsExercises[k \div 2], (k \div 2) - 1,
                              SupersetRest, AbsReps, progress, templates)]
      used1 == EntryIds(paired)
      Unused1(ex) == ex.id \notin used1
      remainingStrengths == Take(SelectSeq(validExercises, Unused1), MaxFinishers)
      \* the loop pushes, then breaks once the list holds FinisherStop entries
      pushed == IF Len(remainingStrengths) = 0 THEN 0
                ELSE IF Len(paired) + 1 >= FinisherStop THEN 1
                ELSE Len(remainingStrengths)
      finishers == [k \in 1..pushed |->
                      Entry(remainingStrengths[k], NoSuperset, FinisherRest,
                            StrengthReps, progress, templates)]
      used2 == used1 \cup EntryIds(finishers)
      Unused2(ex) == ex.id \notin used2
      remainingAbs == Take(SelectSeq(validAbsExercises, Unused2), MaxAbsFinishers)
      absFinishers == [k \in 1..Len(remainingAbs) |->
                         Entry(remainingAbs[k], NoSuperset, AbsFinisherRest,
                               AbsReps, progress, templates)]
      all3 == paired \o finishers \o absFinishers
      used3 == used2 \cup EntryIds(absFinishers)
      Unused3(ex) == ex.id \notin used3
      extra == IF Len(all3) < MinEntries
               THEN Take(SelectSeq(validExercises \o validAbsExercises, Unused3),
                         MinEntries - Len(all3))
               ELSE <<>>
      extras == [k \in 1..Len(extra) |->
                   Entry(extra[k], NoSuperset, AbsFinisherRest, AbsReps, progress,
                         templates)]
  IN With(Take(all3 \o extras, MaxEntries), Dedupe)

\* a set as buildRoutinePayload.js copies it: null for a missing field
NormalSet(set) ==
  [type |-> set.type,
   weight_kg |-> set.weight_kg,
   reps |-> IF "reps" \in DOMAIN set THEN set.reps ELSE Null,
   duration_seconds |-> IF "duration_seconds" \in DOMAIN set
                        THEN set.duration_seconds ELSE Null]

\* buildRoutinePayload.js: entries without a template id, or with one met
\* before, are skipped
buildRoutinePayloadList(exercises) ==
  LET Kept(i) == /\ exercises[i].exercise_template_id # 0
                 /\ \A j \in 1..(i - 1) :
                      exercises[j].exercise_template_id
                        # exercises[i].exercise_template_id
      keep == {i \in 1..Len(exercises) : Kept(i)}
      Nth(k) == CHOOSE i \in keep : Cardinality({j \in keep : j <= i}) = k
  IN [k \in 1..Cardinality(keep) |->
        [exercises[Nth(k)] EXCEPT
           !.sets = [i \in 1..Len(@) |-> NormalSet(@[i])]]]

----------------------------------------------------------------------------
(* Exercise selection *)

muscleTargets ==
  [Push |-> <<"chest", "shoulders", "triceps">>,
   Pull |-> <<"lats", "upper back", "biceps", "rear delts">>,
   Legs |-> <<"quads", "hamstrings", "glutes", "calves">>,
   Core |-> <<"abdominals", "obliques", "full body", "lower back">>,
   Cardio |-> <<"cardio">>,
   Abs |-> <<"abdominals", "obliques">>]

legMuscleGroups == {"quads", "glutes", "hamstrings", "calves"}
coreMuscleGroups == {"abdominals", "obliques", "core"}
absMuscles == {"abdominals", "obliques"}
StrengthRecentDays == 7
AbsRecentDays == 5
RecentTitleDays == 1
DefaultNumExercises == 6
CoreDayNumExercises == 8
NumAbsExercises == 3
VarietyDays == 21
VarietyUses == 3

TitlesOf(w) == {w.exercises[k].title : k \in 1..Len(w.exercises)}

\* recentTitles of analyzeHistory: titles of the sessions of the last day
recentTitlesOf(ws, t) ==
  LET recentWorkouts == Take(ws, AnalysisWindow)
  IN UNION {TitlesOf(recentWorkouts[i]) :
              i \in {j \in 1..Len(recentWorkouts) :
                       recentWorkouts[j].start_time >= t - RecentTitleDays * TicksPerDay}}

\* titles the variety predicate rejects
filterForVariety(ws, t) ==
  {x \in UNION {TitlesOf(ws[i]) : i \in 1..Len(ws)} :
     Cardinality({i \in 1..Len(ws) :
                    /\ x \in TitlesOf(ws[i])
                    /\ ws[i].start_time >= t - VarietyDays * TicksPerDay})
       >= VarietyUses}

\* isRecent of the candidate filters
IsRecent(ws, recentTitles, t, title, days) ==
  IF Len(ws) > 0
  THEN LET with == {i \in 1..Len(ws) : title \in TitlesOf(ws[i])}
       IN /\ with # {}
          /\ ws[CHOOSE i \in with : \A j \in with : i <= j].start_time
               > t - days * TicksPerDay
  ELSE title \in recentTitles

isRealLegExercise(tp) == tp.leg /\ tp.primary_muscle_group \in legMuscleGroups

isGoodCoreExercise(tp) == tp.primary_muscle_group \in coreMuscleGroups /\ tp.core

\* variant: no title counts as used
SeqTitlesNone(sel) == {}

\* usedTitles: the titles of the picks made so far
SeqTitles(sel) == {sel[i].title : i \in 1..Len(sel)}

\* one pass of the loop over sortedMuscleGroups
PickForMuscle(ws, templates, muscleGroups, recentTitles, stale, t, sel, muscle) ==
  LET isLegDay == \E i \in 1..Len(muscleGroups) : muscleGroups[i] \in legMuscleGroups
      isCoreDay == \A i \in 1..Len(muscleGroups) : muscleGroups[i] \in coreMuscleGroups
      Free(tp) == tp.title \notin SeqTitles(sel) /\ tp.title \notin stale
      Strict(tp) == /\ tp.primary_muscle_group = muscle
                    /\ Free(tp)
                    /\ ~IsRecent(ws, recentTitles, t, tp.title, StrengthRecentDays)
      RealLeg(tp) == isRealLegExercise(tp) /\ Free(tp)
      GoodCore(tp) == isGoodCoreExercise(tp) /\ Free(tp)
      c0 == SelectSeq(templates, Strict)
      c1 == IF isLegDay /\ muscle \in legMuscleGroups
            THEN IF Len(SelectSeq(c0, isRealLegExercise)) = 0
                 THEN SelectSeq(templates, RealLeg)
                 ELSE SelectSeq(c0, isRealLegExercise)
            ELSE c0
      c2 == IF isCoreDay
            THEN IF Len(SelectSeq(c1, isGoodCoreExercise)) = 0
                 THEN SelectSeq(templates, GoodCore)
                 ELSE SelectSeq(c1, isGoodCoreExercise)
            ELSE c1
      NonBicep(tp) == tp.primary_muscle_group # "biceps"
      finalCandidates == IF Len(SelectSeq(c2, NonBicep)) > 0 /\ muscle # "biceps"
                         THEN SelectSeq(c2, NonBicep) ELSE c2
      usedEquipment == {sel[i].equipment : i \in 1..Len(sel)}
      NewEquipment(tp) == tp.equipment \notin usedEquipment
      \* stable sort: templates with equipment not used yet come first
      sorted == SelectSeq(finalCandidates, NewEquipment)
                  \o SelectSeq(finalCandidates, LAMBDA tp : ~NewEquipment(tp))
  IN IF Len(c2) > 0 THEN Append(sel, sorted[1]) ELSE sel

RECURSIVE PickLoop(_, _, _, _, _, _, _, _, _)
PickLoop(ws, templates, muscleGroups, recentTitles, stale, t, desired, sel, i) ==
  LET sortedMuscleGroups ==
        <<"lats">> \o SelectSeq(muscleGroups, LAMBDA m : m # "lats")
  IN IF i > Len(sortedMuscleGroups) \/ Len(sel) >= desired THEN sel
     ELSE PickLoop(ws, templates, muscleGroups, recentTitles, stale, t, desired,
                   PickForMuscle(ws, templates, muscleGroups, recentTitles, stale,
                                 t, sel, sortedMuscleGroups[i]),
                   i + 1)

\* the while loop that fills up to the desired count
RECURSIVE FillLoop(_, _, _, _, _)
FillLoop(templates, muscleGroups, stale, desired, sel) ==
  LET isCoreDay == \A i \in 1..Len(muscleGroups) : muscleGroups[i] \in coreMuscleGroups
      Usable(tp) == /\ tp.title \notin SeqTitles(sel)
                    /\ tp.title \notin stale
                    /\ (~isCoreDay \/ isGoodCoreExercise(tp))
      fill == SelectSeq(templates, Usable)
  IN IF Len(sel) >= desired \/ Len(fill) = 0 THEN sel
     ELSE FillLoop(templates, muscleGroups, stale, desired, Append(sel, fill[1]))

pickExercises(ws, templates, muscleGroups, recentTitles, stale, t, numExercises) ==
  LET isCoreDay == \A i \in 1..Len(muscleGroups) : muscleGroups[i] \in coreMuscleGroups
      desiredNumExercises == IF isCoreDay THEN CoreDayNumExercises ELSE numExercises
  IN FillLoop(templates, muscleGroups, stale, desiredNumExercises,
              PickLoop(ws, templates, muscleGroups, recentTitles, stale, t,
                       desiredNumExercises, <<>>, 1))

priorityExercises == <<"abdominals", "obliques", "abdominals">>

\* candidates of slot i of pickAbsExercises, after its fallback
AbsCandidates(ws, templates, recentTitles, t, sel, i) ==
  LET slot == ((i - 1) % Len(priorityExercises)) + 1
      Fresh(tp) == /\ tp.title \notin SeqTitles(sel)
                   /\ ~IsRecent(ws, recentTitles, t, tp.title, AbsRecentDays)
      Specific(tp) == /\ tp.primary_muscle_group = priorityExercises[slot]
                      /\ slot \in tp.abs
                      /\ Fresh(tp)
      AnyAbs(tp) == tp.primary_muscle_group \in absMuscles /\ Fresh(tp)
  IN IF Len(SelectSeq(templates, Specific)) > 0
     THEN Range(SelectSeq(templates, Specific))
     ELSE Range(SelectSeq(templates, AnyAbs))

\* every list pickAbsExercises can return: Math.random picks the candidate
RECURSIVE AbsLoop(_, _, _, _, _, _, _)
AbsLoop(ws, templates, recentTitles, t, numExercises, sel, i) ==
  IF i > numExercises THEN {sel}
  ELSE LET cands == AbsCandidates(ws, templates, recentTitles, t, sel, i)
       IN IF cands = {}
          THEN AbsLoop(ws, templates, recentTitles, t, numExercises, sel, i + 1)
          ELSE UNION {AbsLoop(ws, templates, recentTitles, t, numExercises,
                              Append(sel, c), i + 1) : c \in cands}

pickAbsExercises(ws, templates, recentTitles, t, numExercises) ==
  AbsLoop(ws, templates, recentTitles, t, numExercises, <<>>, 1)

----------------------------------------------------------------------------
(* Inputs of the model: template catalogs and routine lists *)

\* a template: id, title, muscle group, equipment, and what its title holds:
\* a leg keyword, a core keyword, the abs priority slots whose keywords it has,
\* a duration keyword (plank, hold, ...), 'crunch' or 'twist'
Template(id, title, muscle, equipment, leg, core, abs, hold, crunch) ==
  [id |-> id, title |-> title, primary_muscle_group |-> muscle,
   equipment |-> equipment, leg |-> leg, core |-> core, abs |-> abs,
   hold |-> hold, crunch |-> crunch]

\* catalog entry titled by its id; slot 3 titles are holds, slot 1 and 2
\* titles are crunches and twists
Tmpl(id, muscle, equipment, leg, core, abs) ==
  Template(id, id, muscle, equipment, leg, core, abs, 3 \in abs,
           abs \cap {1, 2} # {})

FullCatalog ==
  <<Tmpl(1, "chest", "barbell", FALSE, FALSE, {}),
    Tmpl(2, "lats", "machine", FALSE, FALSE, {}),
    Tmpl(3, "shoulders", "dumbbell", FALSE, FALSE, {}),
    Tmpl(4, "triceps", "machine", FALSE, FALSE, {}),
    Tmpl(5, "biceps", "dumbbell", FALSE, FALSE, {}),
    Tmpl(6, "quads", "barbell", TRUE, FALSE, {}),
    Tmpl(7, "hamstrings", "machine", TRUE, FALSE, {}),
    Tmpl(8, "glutes", "barbell", TRUE, FALSE, {}),
    Tmpl(9, "abdominals", "none", FALSE, TRUE, {1}),
    Tmpl(10, "obliques", "none", FALSE, TRUE, {2}),
    Tmpl(11, "abdominals", "none", FALSE, TRUE, {3}),
    Tmpl(12, "cardio", "machine", FALSE, FALSE, {})>>

SmallCatalog ==
  <<Tmpl(1, "chest", "barbell", FALSE, FALSE, {}),
    Tmpl(9, "abdominals", "none", FALSE, TRUE, {1})>>

Catalogs == {<<>>, SmallCatalog, FullCatalog}

ManagedRoutine == [id |-> 1, managed |-> TRUE]
OtherRoutine == [id |-> 2, managed |-> FALSE]

RoutineLists ==
  {l \in UNION {[1..n -> {ManagedRoutine, OtherRoutine}] : n \in 0..MaxRoutines} :
     \A i, j \in 1..Len(l) : i # j => l[i].id # l[j].id}

CacheFiles ==
  {[state |-> "missing", list |-> <<>>], [state |-> "corrupt", list |-> <<>>]}
    \cup {[state |-> "ok", list |-> l] : l \in RoutineLists}

IdsOf(l) == {l[i].id : i \in 1..Len(l)}

----------------------------------------------------------------------------
(* Retry wrapper and remote store *)

DefaultMaxAttempts == 5
DefaultBaseDelayMs == 2000
UpdateMaxAttempts == 3
UpdateBaseDelayMs == 1000
updateAttempts == 5
backoff == 2000

FailStatuses == {0, 404, 429, 500}

isRateLimit(status) == status = 429
isServerError(status) == status >= 500
Retryable(status) == isRateLimit(status) \/ isServerError(status)

\* variant: every failure is retried until the attempts run out
WrapperThrowsOnLastOnly(status, n, maxAttempts) == n = maxAttempts

\* the throw condition in the catch of makeApiRequestWithRetry
WrapperThrows(status, n, maxAttempts) ==
  n = maxAttempts \/ (~isServerError(status) /\ ~isRateLimit(status))

RetryDelay(baseDelayMs, n) == baseDelayMs * Pow2(n - 1)

\* arguments that the callers pass to makeApiRequestWithRetry
MaxAttemptsOf(m) == IF m = "put" THEN UpdateMaxAttempts ELSE DefaultMaxAttempts
BaseDelayOf(m) == IF m = "put" THEN UpdateBaseDelayMs ELSE DefaultBaseDelayMs

\* what updateRoutine does when the wrapper threw on outer attempt n
UpdateGivesUp(n) == n = updateAttempts

\* variant: an exhausted update falls back to creating the routine
OnUpdateExhaustedCreates == "create"

\* after the last update attempt the error is thrown on to the catch of
\* autoplan, "to prevent creating a new routine"
OnUpdateExhausted == "fail"

PageCount(store) == Max(1, (Len(store) + PageSize - 1) \div PageSize)
PageOf(store, p) ==
  SubSeq(store, (p - 1) * PageSize + 1, Min(p * PageSize, Len(store)))
\* id the store gives a created routine: above every id in use
FreshId(store) == Len(store) + Cardinality({ManagedRoutine, OtherRoutine}) + 1

----------------------------------------------------------------------------
(* Routine synchroniser: pure steps of autoplan *)

\* variant: a failed fetch goes straight to the routines argument
DiscoverListNoCache(ok, fetched, rts, cache) == IF ok THEN fetched ELSE rts

\* routine list used for identification, after the fallbacks
DiscoverList(ok, fetched, rts, cache) ==
  LET afterRefresh == IF ok THEN fetched
                      ELSE IF cache.state = "ok" THEN cache.list ELSE rts
  IN IF Len(afterRefresh) = 0 THEN rts ELSE afterRefresh

\* updatedRoutines.find(r => r.title.includes('CoachGPT')), 0 when there is none
FindManaged(list) ==
  IF \E i \in 1..Len(list) : list[i].managed
  THEN list[CHOOSE i \in 1..Len(list) :
              list[i].managed /\ \A j \in 1..(i - 1) : ~list[j].managed].id
  ELSE 0

\* validation of the found id against the cache file
CacheVerdict(id, cache) ==
  IF id = 0 THEN "none"
  ELSE IF cache.state = "missing" THEN "nofile"
  ELSE IF cache.state = "corrupt" THEN "unreadable"
  ELSE IF id \in IdsOf(cache.list) THEN "verified"
  ELSE "absent"

\* variant: the identified routine is kept without consulting the cache
KeptRoutineUnchecked(id, cache) == id

\* existingRoutine after validation: null when the cache lacks the id
KeptRoutine(id, cache) == IF CacheVerdict(id, cache) = "absent" THEN 0 ELSE id

\* create or update
SubmitMethod(existing) == IF existing # 0 THEN "put" ELSE "post"

\* the post-condition check redoes the selection
MinExercises == 6
NeedsRedo(n, count, wt) == n = 1 /\ count < MinExercises /\ wt # "Cardio"

----------------------------------------------------------------------------
(* One run of autoplan against the remote store *)

BeginCall(m, p, acc) ==
  /\ method' = m
  /\ attempt' = 1
  /\ updAttempt' = 1
  /\ page' = p
  /\ allRoutines' = acc
  /\ outcome' = "pending"
  /\ requests' = 0
  /\ delays' = <<>>
  /\ worst' = "none"
  /\ afterFatal' = FALSE

\* leave the try block with p and enter finally
ToFinal(p, threw) ==
  /\ pending' = p
  /\ buildThrew' = (buildThrew \/ threw)
  /\ pc' = "final"
  /\ finalRefreshes' = finalRefreshes + 1
  /\ BeginCall("get", 1, <<>>)
  /\ UNCHANGED <<payload, submission>>

\* selection, payload construction and the start of create / update
Submit(n, existing) ==
  LET wt == workoutType
      strict == n = 1
      recentTitles == IF strict THEN recentTitlesOf(workouts, now) ELSE {}
      stale == IF strict THEN filterForVariety(workouts, now) ELSE {}
      mainExercises ==
        IF wt = "Cardio" /\ strict
        THEN pickExercises(workouts, exerciseTemplates, muscleTargets.Cardio,
                           recentTitles, stale, now, 1)
        ELSE pickExercises(workouts, exerciseTemplates, muscleTargets[wt],
                           recentTitles, stale, now, DefaultNumExercises)
  IN \E absExercises \in pickAbsExercises(workouts, exerciseTemplates,
                                         recentTitles, now, NumAbsExercises),
        progress \in {progressionAnalysis(workouts, exerciseTemplates)} :
       IF BuildThrows(mainExercises, absExercises)
       THEN ToFinal("failure", TRUE)
       ELSE /\ payload' = buildRoutinePayload(mainExercises, absExercises, progress,
                                          exerciseTemplates)
            /\ submission' = n
            /\ pc' = "submit"
            /\ BeginCall(SubmitMethod(existing), 0, <<>>)
            /\ UNCHANGED <<pending, buildThrew, finalRefreshes>>

\* start of autoplan: catalog, analysis, split choice, last_scheduled.json
Schedule(templates) ==
  /\ exerciseTemplates' = templates
  /\ workoutType' = determineWorkoutTypeByLastHit(workouts, templates, now)
  /\ lastScheduled' = [workoutType |-> workoutType', date |-> now]

\* autoplan is called: with the { workouts, templates, routines } object, or
\* with no argument at all; the synchronous part up to the first request
Invoke(argsGiven, templatesGiven, templates, rts) ==
  /\ UNCHANGED <<pureVars, overlapVars>>
  /\ pc = "idle"
  /\ IF ~argsGiven
     THEN /\ result' = "rejected"
          /\ pc' = "done"
          /\ UNCHANGED <<exerciseTemplates, workoutType, lastScheduled, routines,
                         pending, finalRefreshes, buildThrew, payload, submission,
                         callVars>>
     ELSE IF ~templatesGiven
     THEN /\ ToFinal("failure", FALSE)
          /\ routines' = rts
          /\ UNCHANGED <<exerciseTemplates, workoutType, lastScheduled, result>>
     ELSE /\ Schedule(templates)
          /\ routines' = rts
          /\ pc' = "discover"
          /\ BeginCall("get", 1, <<>>)
          /\ UNCHANGED <<result, pending, finalRefreshes, buildThrew, payload,
                         submission>>
  /\ UNCHANGED <<now, day, workouts, prevType, prevTrained, allTrained, retryDue,
                 repeatExcused, remote, cacheFile, updatedRoutines, existingRoutine,
                 cacheCheck, refreshFailed, posts, puts, created, updateExhausted>>

Count(m) ==
  /\ posts' = (posts \/ m = "post")
  /\ puts' = (puts \/ m = "put")

\* failures ordered by gravity: rate limit, server error, anything else
Gravity(status) ==
  IF isRateLimit(status) THEN "429" ELSE IF isServerError(status) THEN "5xx" ELSE "other"

Graver(a, b) ==
  IF "other" \in {a, b} THEN "other" ELSE IF "5xx" \in {a, b} THEN "5xx" ELSE "429"

\* a request of the pending call is answered with a failure
HttpFail(status) ==
  /\ UNCHANGED <<pureVars, overlapVars>>
  /\ pc \in {"discover", "submit", "final"}
  /\ outcome = "pending"
  /\ requests' = requests + 1
  /\ worst' = Graver(worst, Gravity(status))
  /\ afterFatal' = (afterFatal \/ worst = "other")
  /\ Count(method)
  /\ IF WrapperThrows(status, attempt, MaxAttemptsOf(method))
     THEN outcome' = "threw" /\ UNCHANGED <<attempt, delays>>
     ELSE /\ delays' = Append(delays, RetryDelay(BaseDelayOf(method), attempt))
          /\ attempt' = attempt + 1
          /\ UNCHANGED outcome
  /\ UNCHANGED <<method, updAttempt, page, allRoutines, created, remote>>
  /\ UNCHANGED <<schedVars, pc, result, pending, cacheFile, routines,
                 updatedRoutines, existingRoutine, cacheCheck, refreshFailed,
                 submission, payload, updateExhausted, buildThrew, finalRefreshes>>

\* a request of the pending call is answered with success
HttpOk ==
  /\ UNCHANGED <<pureVars, overlapVars>>
  /\ pc \in {"discover", "submit", "final"}
  /\ outcome = "pending"
  /\ method = "put" => existingRoutine \in IdsOf(remote)
  /\ requests' = requests + 1
  /\ afterFatal' = (afterFatal \/ worst = "other")
  /\ Count(method)
  /\ outcome' = "ok"
  /\ allRoutines' = IF method = "get" THEN allRoutines \o PageOf(remote, page)
                    ELSE allRoutines
  /\ remote' = IF method = "post"
               THEN Append(remote, [id |-> FreshId(remote), managed |-> TRUE])
               ELSE remote
  /\ created' = IF method = "post" THEN created + 1 ELSE created
  /\ UNCHANGED <<method, attempt, updAttempt, page, delays, worst>>
  /\ UNCHANGED <<schedVars, pc, result, pending, cacheFile, routines,
                 updatedRoutines, existingRoutine, cacheCheck, refreshFailed,
                 submission, payload, updateExhausted, buildThrew, finalRefreshes>>

\* refreshRoutines asks for the next page
NextPage ==
  /\ UNCHANGED <<pureVars, overlapVars>>
  /\ pc \in {"discover", "final"}
  /\ outcome = "ok"
  /\ page < PageCount(remote)
  /\ BeginCall("get", page + 1, allRoutines)
  /\ UNCHANGED <<schedVars, runVars>>

\* the discover refresh returned or threw: fallbacks, identification,
\* validation, selection and the start of create or update
Discovered ==
  /\ UNCHANGED <<pureVars, overlapVars>>
  /\ pc = "discover"
  /\ outcome = "threw" \/ (outcome = "ok" /\ page >= PageCount(remote))
  /\ cacheFile' = IF outcome = "ok" THEN [state |-> "ok", list |-> allRoutines]
                  ELSE cacheFile
  /\ refreshFailed' = (outcome = "threw")
  /\ updatedRoutines' = DiscoverList(outcome = "ok", allRoutines, routines, cacheFile)
  /\ cacheCheck' = CacheVerdict(FindManaged(updatedRoutines'), cacheFile')
  /\ existingRoutine' = KeptRoutine(FindManaged(updatedRoutines'), cacheFile')
  /\ Submit(1, existingRoutine')
  /\ UNCHANGED <<schedVars, result, remote, routines, posts, puts, created,
                 updateExhausted>>

\* createRoutine / updateRoutine resumes after the wrapper returned or threw
Submitted ==
  /\ UNCHANGED <<pureVars, overlapVars>>
  /\ pc = "submit"
  /\ outcome # "pending"
  /\ IF outcome = "ok"
     THEN /\ IF NeedsRedo(submission, Len(payload), workoutType)
             THEN Submit(2, existingRoutine)
             ELSE ToFinal("success", FALSE)
          /\ UNCHANGED updateExhausted
     ELSE IF method = "put" /\ ~UpdateGivesUp(updAttempt)
     THEN /\ delays' = Append(delays, RetryDelay(backoff, updAttempt))
          /\ updAttempt' = updAttempt + 1
          /\ attempt' = 1
          /\ outcome' = "pending"
          /\ UNCHANGED <<method, page, allRoutines, requests, worst, afterFatal,
                         pc, pending, submission, payload, updateExhausted,
                         buildThrew, finalRefreshes>>
     ELSE IF method = "put" /\ OnUpdateExhausted = "create"
     THEN /\ updateExhausted' = TRUE
          /\ BeginCall("post", 0, <<>>)
          /\ UNCHANGED <<pc, pending, submission, payload, buildThrew,
                         finalRefreshes>>
     ELSE /\ updateExhausted' = (updateExhausted \/ method = "put")
          /\ ToFinal("failure", FALSE)
  /\ UNCHANGED <<schedVars, result, remote, cacheFile, routines, updatedRoutines,
                 existingRoutine, cacheCheck, refreshFailed, posts, puts, created>>

\* the final refresh returned or threw: autoplan settles
Finished ==
  /\ UNCHANGED <<pureVars, overlapVars>>
  /\ pc = "final"
  /\ outcome = "threw" \/ (outcome = "ok" /\ page >= PageCount(remote))
  /\ cacheFile' = IF outcome = "ok" THEN [state |-> "ok", list |-> allRoutines]
                  ELSE cacheFile
  /\ pc' = "done"
  /\ result' = pending
  /\ UNCHANGED <<schedVars, callVars, pending, remote, routines, updatedRoutines,
                 existingRoutine, cacheCheck, refreshFailed, submission, payload,
                 posts, puts, created, updateExhausted, buildThrew, finalRefreshes>>

SchedIdle ==
  /\ now = 0
  /\ day = "run"
  /\ exerciseTemplates = <<>>
  /\ lastScheduled = [workoutType |-> "none", date |-> 0]
  /\ workoutType = "none"
  /\ prevType = "none"
  /\ prevTrained = FALSE
  /\ allTrained = TRUE
  /\ retryDue = "none"
  /\ repeatExcused = FALSE

RunIdle ==
  /\ pc = "idle"
  /\ result = "none"
  /\ pending = "none"
  /\ routines = <<>>
  /\ updatedRoutines = <<>>
  /\ existingRoutine = 0
  /\ cacheCheck = "none"
  /\ refreshFailed = FALSE
  /\ submission = 0
  /\ payload = <<>>
  /\ method = "none"
  /\ attempt = 0
  /\ updAttempt = 0
  /\ page = 0
  /\ allRoutines = <<>>
  /\ outcome = "none"
  /\ requests = 0
  /\ delays = <<>>
  /\ worst = "none"
  /\ afterFatal = FALSE
  /\ posts = FALSE
  /\ puts = FALSE
  /\ created = 0
  /\ updateExhausted = FALSE
  /\ buildThrew = FALSE
  /\ finalRefreshes = 0

NoCall == [fn |-> "none"]
NoReturn == [done |-> FALSE]

PureIdle ==
  /\ call = NoCall
  /\ returned = NoReturn

\* the endpoints that start a run: POST /autoplan and POST /daily
Endpoints == {"autoplan", "daily"}

\* let historyAnalysis = null, read as an analysis of nothing
NoAnalysis == [recentTitles |-> {}, progressionAnalysis |-> <<>>]

NotStarted ==
  [pc |-> "idle", workouts |-> <<>>, templates |-> <<>>, workoutType |-> "none",
   mainExercises |-> <<>>, payload |-> <<>>]

OverlapIdle ==
  /\ historyAnalysis = NoAnalysis
  /\ runs = [e \in Endpoints |-> NotStarted]

\* a session as the tracker reports it: titles and template ids, start time
Logged(titles, ids, t) ==
  [start_time |-> t,
   exercises |-> [k \in 1..Len(ids) |->
                    [title |-> titles[k], exercise_template_id |-> ids[k],
                     sets |-> <<>>]]]

\* the workouts argument of a run: no history, or one session the day before
RunHistories == {<<>>, <<Logged(<<1, 9>>, <<1, 9>>, 0 - TicksPerDay)>>}

InitSync ==
  /\ SchedIdle
  /\ RunIdle
  /\ PureIdle
  /\ OverlapIdle
  /\ workouts \in RunHistories
  /\ remote \in RoutineLists
  /\ cacheFile \in CacheFiles

NextSync ==
  \/ \E argsGiven, templatesGiven \in BOOLEAN, templates \in Catalogs,
        rts \in RoutineLists :
       Invoke(argsGiven, templatesGiven, templates, rts)
  \/ \E status \in FailStatuses : HttpFail(status)
  \/ HttpOk
  \/ NextPage
  \/ Discovered
  \/ Submitted
  \/ Finished

SpecSync == InitSync /\ [][NextSync]_vars

----------------------------------------------------------------------------
(* Daily cycle: a run schedules a split, the user trains the routine or not *)

TrainOffset == 1
FetchedWorkouts == 30

\* routines the run can leave in the store: the first submission, or the
\* redo of the post-condition check
PlannedRoutines(ws, templates, wt, t) ==
  LET Redo(first, relaxedMain, progress) ==
        {IF BuildThrows(relaxedMain, a) THEN first
         ELSE buildRoutinePayload(relaxedMain, a, progress, templates) :
           a \in pickAbsExercises(ws, templates, {}, t, NumAbsExercises)}
  IN UNION {IF BuildThrows(strictMain, a) THEN {}
            ELSE UNION {IF NeedsRedo(1, Len(first), wt)
                        THEN Redo(first, relaxedMain, progress)
                        ELSE {first} :
                          first \in {buildRoutinePayload(strictMain, a, progress,
                                                         templates)}} :
              a \in pickAbsExercises(ws, templates, recentTitlesOf(ws, t), t,
                                     NumAbsExercises),
              progress \in {progressionAnalysis(ws, templates)},
              strictMain \in {pickExercises(ws, templates, muscleTargets[wt],
                                            recentTitlesOf(ws, t),
                                            filterForVariety(ws, t), t,
                                            DefaultNumExercises)},
              relaxedMain \in {pickExercises(ws, templates, muscleTargets[wt], {},
                                             {}, t, DefaultNumExercises)}}

\* the session the tracker reports for a routine trained in its order
SessionOf(routine, templates, t) ==
  [start_time |-> t,
   exercises |-> [k \in 1..Len(routine) |->
                    [title |-> FindTemplate(templates,
                                            routine[k].exercise_template_id).title,
                     exercise_template_id |-> routine[k].exercise_template_id,
                     sets |-> <<>>]]]

\* every split but s was touched in the last two days
OthersFresh(ws, templates, t, s) ==
  \A o \in Range(Splits) \ {s} :
    \E i \in 1..Len(ws) :
      /\ o \in splitsTouched(ws[i], templates)
      /\ t - ws[i].start_time <= 2 * TicksPerDay

EvenWeek(ws, templates, t) ==
  \A a, b \in Range(Splits) :
    weeklySplitFrequency(ws, templates, t)[a] = weeklySplitFrequency(ws, templates, t)[b]

\* the daily run, up to the write of last_scheduled.json
Plan ==
  /\ UNCHANGED <<pureVars, overlapVars>>
  /\ day = "run"
  /\ now < MaxDays * TicksPerDay
  /\ Schedule(FullCatalog)
  /\ retryDue' = IF /\ lastScheduled.workoutType # "none"
                    /\ Len(workouts) > 0
                    /\ lastScheduled.date > workouts[1].start_time
                 THEN lastScheduled.workoutType ELSE "none"
  /\ prevType' = workoutType
  /\ repeatExcused' = /\ OthersFresh(workouts, FullCatalog, now, workoutType')
                      /\ EvenWeek(workouts, FullCatalog, now)
  /\ day' = "train"
  /\ UNCHANGED <<now, workouts, prevTrained, allTrained, callVars, runVars>>

\* the user trains the scheduled routine later that day
Train ==
  /\ UNCHANGED <<pureVars, overlapVars>>
  /\ day = "train"
  /\ \E routine \in PlannedRoutines(workouts, exerciseTemplates, workoutType, now) :
       workouts' = Take(<<SessionOf(routine, exerciseTemplates, now + TrainOffset)>>
                          \o workouts, FetchedWorkouts)
  /\ now' = now + TicksPerDay
  /\ day' = "run"
  /\ prevTrained' = TRUE
  /\ UNCHANGED <<exerciseTemplates, lastScheduled, workoutType, prevType, allTrained,
                 retryDue, repeatExcused, callVars, runVars>>

\* the user does not train that day
Skip ==
  /\ UNCHANGED <<pureVars, overlapVars>>
  /\ day = "train"
  /\ now' = now + TicksPerDay
  /\ day' = "run"
  /\ prevTrained' = FALSE
  /\ allTrained' = FALSE
  /\ UNCHANGED <<workouts, exerciseTemplates, lastScheduled, workoutType, prevType,
                 retryDue, repeatExcused, callVars, runVars>>

InitSched ==
  /\ SchedIdle
  /\ RunIdle
  /\ PureIdle
  /\ OverlapIdle
  /\ workouts = <<>>
  /\ remote = <<>>
  /\ cacheFile = [state |-> "missing", list |-> <<>>]

NextSched == Plan \/ Train \/ Skip

SpecSched == InitSched /\ [][NextSched]_vars

----------------------------------------------------------------------------
(* Single calls: one function of the planner applied to drawn arguments *)

MaxSessions == 4

\* exercises of a session, by template id of FullCatalog: one split each, and
\* a chest, shoulders, lats session
SessionShapes == {<<1>>, <<2>>, <<6>>, <<9>>, <<1, 3, 2>>}

\* how long before the call a session started, in ticks
SessionAges ==
  {0, TicksPerDay, 2 * TicksPerDay + 1, 3 * TicksPerDay, 8 * TicksPerDay}

\* a call of the scheduler; its history is drawn session by session
ScheduleCalls == {[fn |-> "schedule", workouts |-> <<>>]}

MaxPicks == 3

\* strength picks handed to the builder: a barbell press, a second barbell
\* chest exercise, a wall sit, a crunch, and a pick whose id is not a string
StrengthPool ==
  {Template(1, 1, "chest", "barbell", FALSE, FALSE, {}, FALSE, FALSE),
   Template(6, 6, "chest", "barbell", FALSE, FALSE, {}, FALSE, FALSE),
   Template(2, 2, "quads", "none", FALSE, FALSE, {}, TRUE, FALSE),
   Template(3, 3, "abdominals", "none", FALSE, TRUE, {1}, FALSE, TRUE),
   Template(0, 5, "chest", "machine", FALSE, FALSE, {}, FALSE, FALSE)}

\* abs picks: a crunch, a leg raise, and the barbell press
AbsPool ==
  {Template(3, 3, "abdominals", "none", FALSE, TRUE, {1}, FALSE, TRUE),
   Template(4, 4, "abdominals", "none", FALSE, TRUE, {1}, FALSE, FALSE),
   Template(1, 1, "chest", "barbell", FALSE, FALSE, {}, FALSE, FALSE)}

ListsOver(S, n) == UNION {[1..k -> S] : k \in 0..n}

LoggedSet(kg, reps) == [weight_kg |-> kg, reps |-> reps]

\* sessions newest first, a day apart
HistoryOf(es) ==
  [n \in 1..Len(es) |->
     [start_time |-> 0 - n * TicksPerDay, exercises |-> <<es[n]>>]]

\* historyAnalysis.progressionAnalysis at the call: no record, or the record of
\* exercise 1 after a session of rising volume, of falling volume, or of equal
\* volume ending on 10 reps
ProgressPool ==
  {progressionAnalysis(HistoryOf(<<[title |-> 1, exercise_template_id |-> 1,
                                    sets |-> ss]>>), FullCatalog) :
     ss \in {<<>>, <<LoggedSet(20, 5), LoggedSet(40, 5)>>,
             <<LoggedSet(40, 5), LoggedSet(20, 5)>>,
             <<LoggedSet(40, 5), LoggedSet(20, 10)>>}}

BuildCalls ==
  {[fn |-> "build", exercises |-> e, absExercises |-> a, progress |-> p] :
     e \in ListsOver(StrengthPool, MaxPicks), a \in ListsOver(AbsPool, MaxPicks),
     p \in ProgressPool}

\* entries handed to buildRoutinePayload.js: with and without a template id
BuildListCalls ==
  {[fn |-> "buildList", exercises |-> e] :
     e \in ListsOver({Entry(x, NoSuperset, FinisherRest, StrengthReps, <<>>, <<>>) :
                       x \in StrengthPool}, MaxPicks)}

MaxLogged == 2
MaxSets == 2
UnknownTemplateId == 99

\* sets as the tracker reports them: weights in kg, one without reps
SetPool ==
  {LoggedSet(20, 5), LoggedSet(20, 10), LoggedSet(40, 5), LoggedSet(0, 10),
   LoggedSet(20, Null)}

\* exercise 1 with one to MaxSets sets, or an exercise of the same title whose
\* template is not in the catalog
LoggedExercises ==
  {[title |-> 1, exercise_template_id |-> 1, sets |-> ss] :
     ss \in ListsOver(SetPool, MaxSets) \ {<<>>}}
  \cup {[title |-> 1, exercise_template_id |-> UnknownTemplateId,
         sets |-> <<LoggedSet(40, 5), LoggedSet(40, 10)>>]}

AnalyzeCalls ==
  {[fn |-> "analyze", workouts |-> HistoryOf(es)] :
     es \in ListsOver(LoggedExercises, MaxLogged)}

MaxPickSessions == 3

\* three chest templates, the first of the catalog sharing its title with a
\* custom copy, and one entry listed twice
ChestFirstCatalog ==
  <<Tmpl(1, "chest", "barbell", FALSE, FALSE, {}),
    Tmpl(21, "chest", "dumbbell", FALSE, FALSE, {}),
    Tmpl(22, "chest", "machine", FALSE, FALSE, {}),
    Template(23, 1, "chest", "machine", FALSE, FALSE, {}, FALSE, FALSE),
    Tmpl(2, "lats", "machine", FALSE, FALSE, {}),
    Tmpl(3, "shoulders", "dumbbell", FALSE, FALSE, {}),
    Tmpl(4, "triceps", "machine", FALSE, FALSE, {}),
    Tmpl(2, "lats", "machine", FALSE, FALSE, {})>>

\* one chest template, listed after the others
ChestLastCatalog ==
  <<Tmpl(2, "lats", "machine", FALSE, FALSE, {}),
    Tmpl(3, "shoulders", "dumbbell", FALSE, FALSE, {}),
    Tmpl(4, "triceps", "machine", FALSE, FALSE, {}),
    Tmpl(5, "biceps", "dumbbell", FALSE, FALSE, {}),
    Tmpl(6, "quads", "barbell", TRUE, FALSE, {}),
    Tmpl(7, "hamstrings", "machine", TRUE, FALSE, {}),
    Tmpl(1, "chest", "barbell", FALSE, FALSE, {})>>

PickCatalogs == {SmallCatalog, FullCatalog, ChestFirstCatalog, ChestLastCatalog}

PickSessions ==
  {Logged(shape, shape, 0 - age) :
     shape \in {<<1>>, <<1, 3>>, <<6, 9>>},
     age \in {0, 3 * TicksPerDay, 8 * TicksPerDay}}

\* histories newest first
PickHistories ==
  {h \in ListsOver(PickSessions, MaxPickSessions) :
     \A n \in 1..(Len(h) - 1) : h[n].start_time >= h[n + 1].start_time}

\* the first selection of a run (strict) and the one of the post-check redo
PickCalls ==
  {[fn |-> "pick", workouts |-> h, templates |-> c, workoutType |-> wt,
    strict |-> b] :
     h \in PickHistories, c \in PickCatalogs, wt \in DOMAIN muscleTargets,
     b \in BOOLEAN}

\* equipment categories of the templates, 'none' and '' for bodyweight
Equipments ==
  {"resistance_band", "dumbbell", "barbell", "machine", "kettlebell", "none", ""}

\* exercises without a record of their own, by muscle group and equipment
WeightCalls ==
  {[fn |-> "weight",
    exercise |-> Template(31, 31, m, e, FALSE, FALSE, {}, FALSE, FALSE),
    progress |-> p] :
     m \in {"chest", "shoulders"}, e \in Equipments, p \in ProgressPool}

PureCalls ==
  ScheduleCalls \cup BuildCalls \cup BuildListCalls \cup AnalyzeCalls \cup PickCalls
    \cup WeightCalls

\* the history of the pending call holds one more, older, session
OlderSession(shape, age) ==
  /\ call.fn = "schedule"
  /\ ~returned.done
  /\ Len(call.workouts) < MaxSessions
  /\ Len(call.workouts) > 0 => 0 - age <= call.workouts[Len(call.workouts)].start_time
  /\ call' = [call EXCEPT !.workouts = Append(@, Logged(shape, shape, 0 - age))]
  /\ UNCHANGED <<returned, schedVars, callVars, runVars, overlapVars>>

\* determineWorkoutTypeByLastHit(workouts, exerciseTemplates)
CallSchedule ==
  /\ call.fn = "schedule"
  /\ ~returned.done
  /\ returned' = [done |-> TRUE,
                  value |-> determineWorkoutTypeByLastHit(call.workouts,
                                                          FullCatalog, now)]
  /\ UNCHANGED <<call, schedVars, callVars, runVars, overlapVars>>

\* buildRoutinePayload(workoutType, exercises, absExercises)
CallBuild ==
  /\ call.fn = "build"
  /\ ~returned.done
  /\ returned' = IF BuildThrows(call.exercises, call.absExercises)
                 THEN [done |-> TRUE, threw |-> TRUE]
                 ELSE [done |-> TRUE, threw |-> FALSE,
                       value |-> buildRoutinePayload(call.exercises,
                                                     call.absExercises,
                                                     call.progress, FullCatalog)]
  /\ UNCHANGED <<call, schedVars, callVars, runVars, overlapVars>>

\* buildRoutinePayload(exercises) of buildRoutinePayload.js
CallBuildList ==
  /\ call.fn = "buildList"
  /\ ~returned.done
  /\ returned' = [done |-> TRUE, threw |-> FALSE,
                  value |-> buildRoutinePayloadList(call.exercises)]
  /\ UNCHANGED <<call, schedVars, callVars, runVars, overlapVars>>

\* analyzeHistory(workouts).progressionAnalysis
CallAnalyze ==
  /\ call.fn = "analyze"
  /\ ~returned.done
  /\ returned' = [done |-> TRUE, threw |-> FALSE,
                  value |-> progressionAnalysis(call.workouts, FullCatalog)]
  /\ UNCHANGED <<call, schedVars, callVars, runVars, overlapVars>>

\* pickExercises as autoplan calls it
CallPick ==
  /\ call.fn = "pick"
  /\ ~returned.done
  /\ returned' =
       [done |-> TRUE, threw |-> FALSE,
        value |->
          pickExercises(call.workouts, call.templates,
                        muscleTargets[call.workoutType],
                        IF call.strict THEN recentTitlesOf(call.workouts, now)
                        ELSE {},
                        IF call.strict THEN filterForVariety(call.workouts, now)
                        ELSE {},
                        now,
                        IF call.workoutType = "Cardio" /\ call.strict THEN 1
                        ELSE DefaultNumExercises)]
  /\ UNCHANGED <<call, schedVars, callVars, runVars, overlapVars>>

\* findSimilarExerciseWeight(exercise, progressionAnalysis)
CallWeight ==
  /\ call.fn = "weight"
  /\ ~returned.done
  /\ returned' = [done |-> TRUE, threw |-> FALSE,
                  value |-> findSimilarExerciseWeight(call.exercise, call.progress,
                                                      FullCatalog)]
  /\ UNCHANGED <<call, schedVars, callVars, runVars, overlapVars>>

InitPure ==
  /\ SchedIdle
  /\ RunIdle
  /\ OverlapIdle
  /\ workouts = <<>>
  /\ remote = <<>>
  /\ cacheFile = [state |-> "missing", list |-> <<>>]
  /\ call \in PureCalls
  /\ returned = NoReturn

NextPure ==
  \/ \E shape \in SessionShapes, age \in SessionAges : OlderSession(shape, age)
  \/ CallSchedule
  \/ CallBuild
  \/ CallBuildList
  \/ CallAnalyze
  \/ CallPick
  \/ CallWeight

SpecPure == InitPure /\ [][NextPure]_vars

----------------------------------------------------------------------------
(* Overlapping runs: each endpoint starts a run; a run gives way at every await *)

\* what the endpoints fetched: no session, or the barbell press of yesterday
OverlapHistories ==
  {<<>>,
   HistoryOf(<<[title |-> 1, exercise_template_id |-> 1,
                sets |-> <<LoggedSet(20, 5), LoggedSet(40, 5)>>]>>)}

OverlapCatalogs == {SmallCatalog, FullCatalog}

\* the fields of analyzeHistory's result that the selection reads
analyzeHistory(ws, templates) ==
  [recentTitles |-> recentTitlesOf(ws, now),
   progressionAnalysis |-> progressionAnalysis(ws, templates)]

\* selection and payload of a run, from the module-level tables as they are
Selected(run, strict) ==
  LET wt == run.workoutType
      recentTitles == IF strict THEN historyAnalysis.recentTitles ELSE {}
      stale == IF strict THEN filterForVariety(run.workouts, now) ELSE {}
  IN {IF BuildThrows(main, abs)
      THEN [run EXCEPT !.pc = "done", !.mainExercises = main, !.payload = <<>>]
      ELSE [run EXCEPT !.pc = IF strict THEN "submit" ELSE "resubmit",
                       !.mainExercises = main,
                       !.payload = buildRoutinePayload(
                                     main, abs, historyAnalysis.progressionAnalysis,
                                     exerciseTemplates)] :
        main \in {pickExercises(run.workouts, exerciseTemplates, muscleTargets[wt],
                                recentTitles, stale, now,
                                IF wt = "Cardio" /\ strict THEN 1
                                ELSE DefaultNumExercises)},
        abs \in pickAbsExercises(run.workouts, exerciseTemplates, recentTitles, now,
                                 NumAbsExercises)}

OverlapFrame ==
  UNCHANGED <<now, day, workouts, workoutType, prevType, prevTrained, allTrained,
              retryDue, repeatExcused, callVars, runVars, pureVars>>

\* an endpoint calls autoplan: the synchronous part up to await refreshRoutines()
Start(e, ws, templates) ==
  /\ runs[e].pc = "idle"
  /\ exerciseTemplates' = templates
  /\ historyAnalysis' = analyzeHistory(ws, templates)
  /\ \E wt \in {determineWorkoutTypeByLastHit(ws, templates, now)} :
       /\ lastScheduled' = [workoutType |-> wt, date |-> now]
       /\ runs' = [runs EXCEPT ![e] = [NotStarted EXCEPT !.pc = "refresh",
                                                         !.workouts = ws,
                                                         !.templates = templates,
                                                         !.workoutType = wt]]
  /\ OverlapFrame

\* the run resumes after the refresh: identification, selection, payload, and
\* the start of create or update
Select(e) ==
  /\ runs[e].pc = "refresh"
  /\ \E next \in Selected(runs[e], TRUE) : runs' = [runs EXCEPT ![e] = next]
  /\ UNCHANGED <<exerciseTemplates, historyAnalysis, lastScheduled>>
  /\ OverlapFrame

\* the run resumes after create or update: the post-condition check, or the end
Responded(e, ok) ==
  /\ runs[e].pc \in {"submit", "resubmit"}
  /\ IF ok /\ NeedsRedo(IF runs[e].pc = "submit" THEN 1 ELSE 2,
                        Len(runs[e].payload), runs[e].workoutType)
     THEN \E next \in Selected(runs[e], FALSE) : runs' = [runs EXCEPT ![e] = next]
     ELSE runs' = [runs EXCEPT ![e].pc = "done"]
  /\ UNCHANGED <<exerciseTemplates, historyAnalysis, lastScheduled>>
  /\ OverlapFrame

InitOverlap ==
  /\ SchedIdle
  /\ RunIdle
  /\ PureIdle
  /\ OverlapIdle
  /\ workouts = <<>>
  /\ remote = <<>>
  /\ cacheFile = [state |-> "missing", list |-> <<>>]

NextOverlap ==
  \/ \E e \in Endpoints, ws \in OverlapHistories, templates \in OverlapCatalogs :
       Start(e, ws, templates)
  \/ \E e \in Endpoints : Select(e)
  \/ \E e \in Endpoints, ok \in BOOLEAN : Responded(e, ok)

SpecOverlap == InitOverlap /\ [][NextOverlap]_vars

----------------------------------------------------------------------------
(* Claims *)

StrictlyIncreasing(s) == \A i \in 1..(Len(s) - 1) : s[i] < s[i + 1]

\* C1: when the persisted split is dated after the most recent session, the
\* run returns the persisted split unchanged.
C1_RetryReturnsPersisted ==
  (day = "train" /\ retryDue # "none") => workoutType = retryDue

\* C2: while every scheduled routine is trained, a run never selects the split
\* of the day before, unless every other split was trained within the last two
\* days and the weekly coverage is even.
C2_NoRepeatedSplit ==
  (day = "train" /\ allTrained /\ prevTrained /\ workoutType = prevType)
    => repeatExcused

\* C3: once the update retries are exhausted the run ends in failure and no
\* POST is issued in that run.
C3_NoCreateAfterFailedUpdate ==
  updateExhausted =>
    /\ ~posts
    /\ created = 0
    /\ pc \in {"final", "done"}
    /\ pending = "failure"
    /\ (pc = "done" => result = "failure")

C3_Witness == pc = "done" /\ updateExhausted /\ result = "failure" /\ puts

\* C4 as claimed: a managed routine of the identification list whose id is
\* absent from the local cache is discarded, and never updated.
C4_AbsentIsNeverUpdated ==
  cacheCheck \in {"absent", "nofile", "unreadable"} =>
    (existingRoutine = 0 /\ ~puts)

\* C4 as amended: when the cache file exists, parses and lacks the id of the
\* identified managed routine, the routine is discarded, the run takes the
\* create path and never issues a PUT.
C4_AbsentFromReadableCache ==
  cacheCheck = "absent" =>
    /\ existingRoutine = 0
    /\ ~puts
    /\ (pc = "submit" => method = "post")
    /\ (pc \in {"final", "done"} => (posts \/ buildThrew))

C4_Witness == cacheCheck = "absent" /\ posts /\ pc = "done"

\* C5: an update answered 429 four times and then with success was attempted
\* five times and waited strictly increasing delays.
C5_IncreasingDelays ==
  (pc = "submit" /\ method = "put" /\ outcome = "ok" /\ worst = "429"
     /\ Len(delays) = 4)
    => (requests = 5 /\ StrictlyIncreasing(delays))

\* C6: an outbound call that keeps failing with 429 or 5xx is attempted at
\* most 5 times and waits base * 2^(k-1) after its k-th failed attempt.
C6_FiveAttemptsExponential ==
  (method # "none" /\ worst \in {"none", "429", "5xx"}) =>
    /\ requests <= DefaultMaxAttempts
    /\ \A k \in 1..Len(delays) : delays[k] = RetryDelay(BaseDelayOf(method), k)

\* C7 as claimed: no outbound call is attempted again after a failure that is
\* neither 429 nor 5xx.
C7_FatalNeverRetried == ~afterFatal

\* C7 as amended: list and create calls are not attempted again after a
\* failure that is neither 429 nor 5xx, the error propagates at once; an update
\* is attempted again, by the loop of updateRoutine only, within its 5 attempts.
C7_FatalRetriedByUpdateOnly ==
  /\ (method \in {"get", "post"} /\ worst = "other")
       => (outcome = "threw" /\ ~afterFatal)
  /\ afterFatal => (method = "put" /\ updAttempt > 1)
  /\ method = "put" => updAttempt <= updateAttempts

C7_Witness ==
  method = "post" /\ worst = "other" /\ outcome = "threw" /\ requests = 1

CacheUsable == cacheFile.state = "ok" /\ Len(cacheFile.list) > 0

C9_AlwaysResultAndRefresh ==
  pc = "done" => (result \in {"success", "failure"} /\ finalRefreshes = 1)

\* C10: a run that was handed its arguments and has no exercise available
\* (empty or missing catalog) ends in failure and sends neither a create nor an
\* update request.
C10_NoSubmitWithoutExercises ==
  (pc \in {"submit", "final", "done"} /\ result # "rejected"
     /\ exerciseTemplates = <<>>) =>
    /\ pc # "submit"
    /\ ~posts
    /\ ~puts
    /\ pending = "failure"
    /\ (pc = "done" => result = "failure")

C10_Witness ==
  pc = "done" /\ exerciseTemplates = <<>> /\ buildThrew /\ result = "failure"

\* what the post-check redo submits when no template is excluded for having
\* been performed recently or too often
UnfilteredPayloads ==
  LET mainExercises == pickExercises(<<>>, exerciseTemplates, muscleTargets[workoutType],
                                     {}, {}, now, DefaultNumExercises)
  IN {buildRoutinePayload(mainExercises, a, progress, exerciseTemplates) :
        a \in {x \in pickAbsExercises(<<>>, exerciseTemplates, {}, now, NumAbsExercises) :
                 ~BuildThrows(mainExercises, x)},
        progress \in {progressionAnalysis(workouts, exerciseTemplates)}}

\* C11: the routine re-submitted by the post-condition check is selected with
\* every recency and variety filter disabled, and the redo happens at most once.
C11_RedoWithoutFilters ==
  /\ submission <= 2
  /\ submission = 2 => payload \in UnfilteredPayloads

\* split covering most of the muscle groups a session touched; on a tie the
\* split of the exercise met first
DominantSplit(w, templates) ==
  LET muscles == {MuscleAt(w, k, templates) : k \in 1..Len(w.exercises)}
      Covered(s) == Cardinality(muscles \cap splitMap[s])
      FirstMet(s) == CHOOSE k \in 1..Len(w.exercises) :
                       /\ MuscleAt(w, k, templates) \in splitMap[s]
                       /\ \A j \in 1..(k - 1) : MuscleAt(w, j, templates) \notin splitMap[s]
      best == {s \in Range(Splits) :
                 Covered(s) > 0 /\ \A o \in Range(Splits) : Covered(o) <= Covered(s)}
  IN IF best = {} THEN "none"
     ELSE CHOOSE s \in best : \A o \in best : FirstMet(s) <= FirstMet(o)

\* sessions of the last 7 days whose dominant split is s
SessionsThisWeek(ws, templates, t, s) ==
  Cardinality({i \in 1..Len(ws) :
                 /\ ws[i].start_time >= t - WeekDays * TicksPerDay
                 /\ DominantSplit(ws[i], templates) = s})

\* C12: when some split has no session in the last 7 days, the scheduler
\* returns a split with no session in the last 7 days.
C12_CoverageFirst ==
  (call.fn = "schedule" /\ returned.done
     /\ \E s \in Range(Splits) :
          SessionsThisWeek(call.workouts, FullCatalog, now, s) = 0)
    => SessionsThisWeek(call.workouts, FullCatalog, now, returned.value) = 0

\* s was touched by a session that started within the last given days
TrainedWithin(ws, templates, t, s, days) ==
  \E i \in 1..Len(ws) :
    /\ s \in splitsTouched(ws[i], templates)
    /\ t - ws[i].start_time <= days * TicksPerDay

\* C13: when every split was touched this week, the split returned by the
\* least-frequent rule was not trained within the last 2 days.
C13_LeastFrequentNotRecent ==
  (call.fn = "schedule" /\ returned.done
     /\ smartSplitRule(call.workouts, FullCatalog, now) = "least frequent this week")
    => /\ \A s \in Range(Splits) :
            weeklySplitFrequency(call.workouts, FullCatalog, now)[s] > 0
       /\ returned.value = Splits[FirstMin(weeklySplitFrequency(call.workouts,
                                                                FullCatalog, now))]
       /\ ~TrainedWithin(call.workouts, FullCatalog, now, returned.value, 2)

C13_Witness ==
  /\ call.fn = "schedule"
  /\ returned.done
  /\ smartSplitRule(call.workouts, FullCatalog, now) = "least frequent this week"
  /\ \E s \in Range(Splits) :
       s # returned.value /\ TrainedWithin(call.workouts, FullCatalog, now, s, 2)

\* C14: a payload of the routine builder never holds two entries with the
\* same exercise template id, whatever picks it was given.
C14_NoDuplicateTemplateIds ==
  (call.fn \in {"build", "buildList"} /\ returned.done /\ ~returned.threw) =>
    \A i, j \in 1..Len(returned.value) :
      i # j => returned.value[i].exercise_template_id
                 # returned.value[j].exercise_template_id

C14_Witness ==
  /\ call.fn = "build"
  /\ returned.done
  /\ ~returned.threw
  /\ \E i \in 1..Len(call.exercises), j \in 1..Len(call.absExercises) :
       call.exercises[i].id # 0 /\ call.exercises[i] = call.absExercises[j]
  /\ Len(returned.value) > 1

\* the quantifiable sets of a title in the order they were performed: older
\* sessions first, the sets of a session in their order
Chronological(ws, templates, title) ==
  LET data == progressionData(ws, templates, title)
      Rank(i) == Cardinality({j \in 1..Len(data) :
                                \/ data[j].date < data[i].date
                                \/ data[j].date = data[i].date /\ j <= i})
  IN [k \in 1..Len(data) |-> data[CHOOSE i \in 1..Len(data) : Rank(i) = k]]

RecordOf(analysis, title) ==
  {analysis[k].record : k \in {i \in 1..Len(analysis) : analysis[i].title = title}}

\* C18: an exercise has a progression record exactly when it has two
\* quantifiable sets or more; the volume of a set is its weight times its reps;
\* the suggestion is an increase to 1.05 times the last weight exactly when the
\* volume of the most recent set exceeds the one before it or the most recent
\* reps are 10 or more, and "Maintain or increase reps" otherwise.
C18_ProgressionRule ==
  (call.fn = "analyze" /\ returned.done) =>
    LET sets == Chronological(call.workouts, FullCatalog, 1)
        last == sets[Len(sets)]
        prior == sets[Len(sets) - 1]
    IN /\ \A i \in 1..Len(sets) : sets[i].volume = sets[i].weight_lbs * sets[i].reps
       /\ (RecordOf(returned.value, 1) # {}) <=> (Len(sets) >= MinProgressionSets)
       /\ \A r \in RecordOf(returned.value, 1) :
            IF last.volume > prior.volume \/ last.reps >= HighReps
            THEN /\ r.suggestion.text \in {"Increase weight to",
                                           "Try increasing weight to"}
                 /\ r.suggestion.lbs = newWeightLbs(last.weight_lbs)
            ELSE r.suggestion.text = "Maintain or increase reps"

\* C19: the record of an exercise takes its last weight, reps and volume from
\* the most recent quantifiable set, and the prior volume from the set just
\* before it in time.
C19_LastIsMostRecent ==
  (call.fn = "analyze" /\ returned.done) =>
    LET sets == Chronological(call.workouts, FullCatalog, 1)
        last == sets[Len(sets)]
        prior == sets[Len(sets) - 1]
    IN \A r \in RecordOf(returned.value, 1) :
         /\ r.lastWeightLbs = toFixed1(last.weight_lbs)
         /\ r.lastReps = last.reps
         /\ r.volumeChange = last.volume - prior.volume

CarriesDuration(set) ==
  "duration_seconds" \in DOMAIN set /\ set.duration_seconds > 0 /\ "reps" \notin DOMAIN set

CarriesLoad(set) ==
  /\ "reps" \in DOMAIN set /\ set.reps > 0 /\ set.weight_kg >= 0
  /\ "duration_seconds" \notin DOMAIN set

PickOf(tid) == CHOOSE x \in Range(call.exercises \o call.absExercises) : x.id = tid

\* a pick whose title holds a duration keyword, or a bodyweight abs pick that
\* is neither a crunch nor a twist
DurationPick(x) == x.title \in {2, 4}

\* C15: in a payload of the routine builder, every set of a duration-based
\* exercise carries a duration and no reps, and every set of a load-based
\* exercise carries reps and a weight of 0 or more and no duration.
C15_SetShapes ==
  (call.fn = "build" /\ returned.done /\ ~returned.threw) =>
    \A k \in 1..Len(returned.value) :
      LET entry == returned.value[k]
      IN /\ Len(entry.sets) > 0
         /\ \A i \in 1..Len(entry.sets) :
              IF DurationPick(PickOf(entry.exercise_template_id))
              THEN CarriesDuration(entry.sets[i])
              ELSE CarriesLoad(entry.sets[i])

C15_Witness ==
  /\ call.fn = "build"
  /\ returned.done
  /\ ~returned.threw
  /\ \E k, l \in 1..Len(returned.value) :
       /\ returned.value[k].exercise_template_id = 4
       /\ CarriesDuration(returned.value[k].sets[1])
       /\ returned.value[l].exercise_template_id = 6
       /\ CarriesLoad(returned.value[l].sets[1])
       /\ returned.value[l].sets[1].weight_kg > DefaultBarbellKg * 1000

\* C16: one call of pickExercises never returns two picks with the same
\* template id.
C16_NoDuplicatePicks ==
  (call.fn = "pick" /\ returned.done) =>
    \A i, j \in 1..Len(returned.value) :
      i # j => returned.value[i].id # returned.value[j].id

\* the catalog lists a template twice and holds two templates of one title,
\* and the fill loop has added picks
C16_Witness ==
  /\ call.fn = "pick"
  /\ returned.done
  /\ call.templates = ChestFirstCatalog
  /\ call.workoutType = "Push"
  /\ Len(returned.value) = DefaultNumExercises
  /\ \E k \in 1..Len(returned.value) : returned.value[k].title = 1

\* C17: a pick whose title was logged in the last 24 hours is returned only
\* when the catalog held no other candidate for its muscle group: a template
\* not picked before it, passing the variety predicate, whose title was not
\* logged in the last 24 hours.
C17_RecentOnlyWhenExhausted ==
  (call.fn = "pick" /\ call.strict /\ returned.done) =>
    LET recentTitles == recentTitlesOf(call.workouts, now)
        stale == filterForVariety(call.workouts, now)
        sel == returned.value
    IN \A k \in 1..Len(sel) :
         sel[k].title \in recentTitles =>
           ~\E n \in 1..Len(call.templates) :
              LET tp == call.templates[n]
              IN /\ tp.primary_muscle_group = sel[k].primary_muscle_group
                 /\ tp.title \notin recentTitles
                 /\ tp.title \notin stale
                 /\ \A j \in 1..(k - 1) : sel[j].title # tp.title

\* C20: every targeted muscle group for which the catalog holds a template
\* gets a pick, on the days whose desired count covers all targeted groups.
C20_EveryTargetedGroupPicked ==
  (call.fn = "pick" /\ call.strict /\ call.workoutType # "Cardio"
     /\ returned.done) =>
    LET muscleGroups == muscleTargets[call.workoutType]
        sel == returned.value
    IN \A i \in 1..Len(muscleGroups) :
         (\E n \in 1..Len(call.templates) :
            call.templates[n].primary_muscle_group = muscleGroups[i])
           => \E k \in 1..Len(sel) : sel[k].primary_muscle_group = muscleGroups[i]

\* C21: every pick of the selector, those of the fill loop included, has a
\* primary muscle group of the target list it was called with.
C21_PicksWithinTargets ==
  (call.fn = "pick" /\ returned.done) =>
    \A k \in 1..Len(returned.value) :
      returned.value[k].primary_muscle_group
        \in Range(muscleTargets[call.workoutType])

\* C22: on a Core day the selector aims at 8 exercises and every pick has a
\* title of the core keyword list: it returns 8 picks, or fewer when no
\* core-keyword template of an unused title passing the variety predicate is
\* left.
C22_CoreDayPicks ==
  (call.fn = "pick" /\ call.workoutType = "Core" /\ returned.done) =>
    LET sel == returned.value
        stale == IF call.strict THEN filterForVariety(call.workouts, now) ELSE {}
    IN /\ \A k \in 1..Len(sel) : sel[k].core
       /\ Len(sel) <= CoreDayNumExercises
       /\ Len(sel) < CoreDayNumExercises =>
            ~\E n \in 1..Len(call.templates) :
               /\ call.templates[n].core
               /\ call.templates[n].title \notin stale
               /\ \A k \in 1..Len(sel) : sel[k].title # call.templates[n].title

\* C23: a valid strength pick that is in no superset is in the payload as a
\* solo entry with 90 s of rest, unless the payload holds its maximum of
\* entries.
C23_UnpairedStrengthIsFinisher ==
  (call.fn = "build" /\ returned.done /\ ~returned.threw) =>
    LET entries == returned.value
        pairedIds == {entries[k].exercise_template_id :
                        k \in {x \in 1..Len(entries) :
                                 entries[x].superset_id # NoSuperset}}
    IN Len(entries) < MaxEntries =>
         \A n \in 1..Len(call.exercises) :
           (call.exercises[n].id # 0 /\ call.exercises[n].id \notin pairedIds) =>
             \E k \in 1..Len(entries) :
               /\ entries[k].exercise_template_id = call.exercises[n].id
               /\ entries[k].superset_id = NoSuperset
               /\ entries[k].rest_seconds = FinisherRest

\* C24: a load-based entry of an exercise whose progression record suggests an
\* increase, on a risen volume or on 10 reps or more, plans the suggested
\* weight, 1.05 times the last weight.
C24_IncreaseIsPlanned ==
  (call.fn = "build" /\ returned.done /\ ~returned.threw) =>
    \A k \in 1..Len(returned.value), n \in 1..Len(call.progress) :
      LET entry == returned.value[k]
          pick == PickOf(entry.exercise_template_id)
          record == call.progress[n].record
      IN (/\ call.progress[n].title = pick.title
          /\ ~DurationPick(pick)
          /\ record.suggestion.text \in {"Increase weight to",
                                         "Try increasing weight to"}) =>
           \A i \in 1..Len(entry.sets) :
             entry.sets[i].weight_kg = lbsToKg(record.suggestion.lbs)

\* no record for the exercise, nor for a template of its muscle group and
\* equipment
NoRecordFor(exercise, progress) ==
  \A n \in 1..Len(progress) :
    /\ progress[n].title # exercise.title
    /\ \A t \in 1..Len(FullCatalog) :
         FullCatalog[t].title = progress[n].title =>
           \/ FullCatalog[t].primary_muscle_group # exercise.primary_muscle_group
           \/ FullCatalog[t].equipment # exercise.equipment

LoadedEquipments == {"resistance_band", "dumbbell", "barbell", "machine"}

\* C25: without a record of its own or of a similar exercise, an exercise
\* starts at a default fixed by its equipment: zero for bodyweight, and for
\* bands, dumbbells, barbells and machines four values that differ.
C25_DistinctDefaults ==
  (call.fn = "weight" /\ returned.done
     /\ NoRecordFor(call.exercise, call.progress)) =>
    /\ returned.value >= 0
    /\ call.exercise.equipment \in {"none", ""} => returned.value = 0
    /\ call.exercise.equipment \in LoadedEquipments =>
         \A e \in LoadedEquipments \ {call.exercise.equipment} :
           LET other == [call.exercise EXCEPT !.equipment = e]
           IN NoRecordFor(other, call.progress) =>
                findSimilarExerciseWeight(other, call.progress, FullCatalog)
                  # returned.value

\* C26: the weekly count of each split is the number of sessions of the last
\* 7 days whose dominant split it is, so each session counts for one split, the
\* one covering most of its muscle groups.
C26_DominantSplitCounted ==
  (call.fn = "schedule" /\ returned.done) =>
    \A s \in Range(Splits) :
      weeklySplitFrequency(call.workouts, FullCatalog, now)[s]
        = SessionsThisWeek(Take(call.workouts, AnalysisWindow), FullCatalog, now, s)

\* muscleGroupFrequency[m]: logged exercises of the analysed sessions whose
\* template has primary muscle m
muscleGroupFrequency(ws, templates, m) ==
  Cardinality({p \in Analysed(ws, templates) :
                 MuscleAt(ws[p[1]], p[2], templates) = m})

\* position of the first pick of muscle m, 0 when there is none
FirstPickOf(sel, m) ==
  IF \E k \in 1..Len(sel) : sel[k].primary_muscle_group = m
  THEN CHOOSE k \in 1..Len(sel) :
         /\ sel[k].primary_muscle_group = m
         /\ \A j \in 1..(k - 1) : sel[j].primary_muscle_group # m
  ELSE 0

\* C27: with no exercise in its recency window and the filters off, a back
\* pick comes first, and of two other targeted groups with picks the one
\* trained less often in the history is picked before the other.
C27_UnderTrainedFirst ==
  (call.fn = "pick" /\ ~call.strict /\ returned.done
     /\ \A n \in 1..Len(call.workouts) :
          call.workouts[n].start_time <= now - StrengthRecentDays * TicksPerDay) =>
    LET sel == returned.value
        targets == Range(muscleTargets[call.workoutType]) \ {"lats"}
        Frequency(m) == muscleGroupFrequency(call.workouts, call.templates, m)
    IN /\ FirstPickOf(sel, "lats") \in {0, 1}
       /\ \A a, b \in targets :
            (/\ Frequency(a) < Frequency(b)
             /\ FirstPickOf(sel, a) > 0
             /\ FirstPickOf(sel, b) > 0) =>
              FirstPickOf(sel, a) < FirstPickOf(sel, b)

\* managed routines held by a store
ManagedCount(store) == Cardinality({i \in 1..Len(store) : store[i].managed})

\* C28: a run creates at most one routine, the redo of the post-condition
\* check included, so a store that held at most one managed routine before the
\* run holds at most one.
C28_AtMostOneCreate ==
  /\ created <= 1
  /\ ManagedCount(remote) - created <= 1 => ManagedCount(remote) <= 1

\* C29: in a payload every superset id is carried by exactly two entries, next
\* to each other, both resting 30 s: first a strength pick, then an abs pick.
C29_SupersetsArePairs ==
  (call.fn = "build" /\ returned.done /\ ~returned.threw) =>
    LET es == returned.value
        Members(s) == {k \in 1..Len(es) : es[k].superset_id = s}
        IdsIn(picks) == {picks[n].id : n \in 1..Len(picks)}
    IN \A k \in 1..Len(es) :
         es[k].superset_id # NoSuperset =>
           \E a \in 1..(Len(es) - 1) :
             /\ Members(es[k].superset_id) = {a, a + 1}
             /\ es[a].rest_seconds = SupersetRest
             /\ es[a + 1].rest_seconds = SupersetRest
             /\ es[a].exercise_template_id \in IdsIn(call.exercises)
             /\ es[a + 1].exercise_template_id \in IdsIn(call.absExercises)

\* C30: the picks and the payload a run submits first are those selected and
\* built from the catalog and the history analysis of that run's own arguments.
C30_RunsReadOwnTables ==
  \A e \in Endpoints :
    runs[e].pc = "submit" =>
      \E own \in {[exerciseTemplates |-> runs[e].templates,
                    historyAnalysis |-> analyzeHistory(runs[e].workouts,
                                                       runs[e].templates)]} :
        /\ runs[e].mainExercises
             = pickExercises(runs[e].workouts, own.exerciseTemplates,
                             muscleTargets[runs[e].workoutType],
                             own.historyAnalysis.recentTitles,
                             filterForVariety(runs[e].workouts, now), now,
                             IF runs[e].workoutType = "Cardio" THEN 1
                             ELSE DefaultNumExercises)
        /\ \E abs \in pickAbsExercises(runs[e].workouts, own.exerciseTemplates,
                                        own.historyAnalysis.recentTitles, now,
                                        NumAbsExercises) :
             /\ ~BuildThrows(runs[e].mainExercises, abs)
             /\ runs[e].payload
                  = buildRoutinePayload(runs[e].mainExercises, abs,
                                        own.historyAnalysis.progressionAnalysis,
                                        own.exerciseTemplates)

====
